---- MODULE Spec2Model ----
(***************************************************************************)
(* Model of the streaming request driver of kubebox and of the dashboard   *)
(* built on it:                                                            *)
(*   src/libs/http-then.js  getBody / getStream / decode / decodeFrame     *)
(*   src/kubik.js           getBody / getStream (the copy without upgrade  *)
(*                          support), logger, updatePodTable, dashboard    *)
(*                                                                         *)
(* Spec       one call get(options, generator, async): the transport       *)
(*            (Node's http.ClientRequest / IncomingMessage / socket) emits *)
(*            its events, each event runs the handler the source registers *)
(*            for it, and the caller may invoke the returned cancellation. *)
(* SpecWire   the same call on a connection a server upgrades and feeds    *)
(*            with well-formed frames, cut into blocks at any byte.        *)
(* SpecFrame  one call of decodeFrame.                                     *)
(* SpecBody   one call get(options) without generator, i.e. getBody.       *)
(* SpecApp    kubik.js from its first dashboard() on: pod list, pod watch, *)
(*            log tails, the two 'select' handlers and the registry of     *)
(*            cancellations.                                               *)
(*                                                                         *)
(* undefined is modelled by FALSE for the two abort flags (the code only   *)
(* tests their truthiness) and by the string "undefined" for values.       *)
(***************************************************************************)
EXTENDS Integers, Sequences, FiniteSets, TLC

\* ------------------------------------------------------------- bounds
\* number of 'data' events one transport may emit
MaxData == 3
\* number of calls of the cancellation handle
MaxCancel == 2
\* number of frames a server puts on an upgraded connection
MaxFrames == 2
\* requests (pod lists, pod watches, log tails) the dashboard issues
MaxRequests == 5
\* 'data' events of the dashboard's log requests, all together
MaxLines == 2

\* ------------------------------------------------------------- inputs
\* status codes of a 'response' event and of an 'upgrade' event
ResponseStatus == {200, 404}
UpgradeStatus  == {101, 200}

\* What the caller's generator does when it is resumed: it yields again,
\* returns a value, or lets an exception out.
YieldOutcomes  == {[kind |-> "yield",  val |-> "y"]}
ReturnOutcomes == {[kind |-> "return", val |-> v] : v \in {"v", "undefined"}}
ThrowOutcomes  == {[kind |-> "throw",  val |-> "boom"]}
\* reaction to gen.throw(e): besides the above, e itself may come out again
RethrowOutcome == [kind |-> "throw", val |-> "Request aborted"]
Outcomes       == YieldOutcomes \cup ReturnOutcomes \cup ThrowOutcomes
ThrowReactions == Outcomes \cup {RethrowOutcome}

VARIABLES
  variant,      \* "lib" (src/libs/http-then.js) or "kubik" (src/kubik.js)
  async,        \* the async parameter of getStream
  upgrade,      \* TRUE once the 'upgrade' handler accepted the connection
  net,          \* what the transport can still emit
  event,        \* the event that carried the status: "response" or "upgrade"
  hadError,     \* the socket failed under the response (Node's socket._hadError)
  destroyed,    \* response.destroy() or socket.end() has been called
  aborted,      \* request.abort() has been called (Node's request.aborted)
  abortEvt,     \* the 'abort' event of the request is queued (process.nextTick)
  cancels,      \* calls of cancellation() so far
  clientAbort,  \* let clientAbort
  serverAbort,  \* let serverAbort
  promise,      \* state and value of the returned promise
  settles,      \* calls of resolve/reject so far
  body,         \* response.body
  status,       \* response.statusCode, 0 before any response
  destroyErr,   \* the error handed to response.destroy(error), "none" otherwise
  gen,          \* state of the generator made by generator()
  calls,        \* what the driver did to that generator, in order
  ndata,        \* 'data' events emitted by the transport so far
  escaped,      \* handlers an exception got out of
  dec,          \* state of the decode() generator wrapping gen (upgrade only)
  frame,        \* decode's frame: the declared length, or -1 for undefined
  payload,      \* decode's payload buffer
  offset        \* decode's offset

\* the server's side of an upgraded connection
VARIABLES
  wire,         \* bytes of well-formed frames the socket has still to deliver
  sent          \* the frames put on the wire, in order

\* one call of decodeFrame
VARIABLES
  frameIn,      \* the frame handed to decodeFrame and what its header encodes
  frameOut      \* what decodeFrame answered, "none" before the call

\* one call of getBody
VARIABLES
  chunks,       \* const body = [], the chunks pushed so far
  received      \* the chunks the response has emitted, in order

\* the dashboard of kubik.js
VARIABLES
  namespace,     \* session.namespace
  pod,           \* session.pod, "null" for null
  listed,        \* session.pods has been loaded
  lists,         \* the pod list requests of dashboard() still in flight
  nlists,        \* pod list requests issued so far
  streams,       \* every streaming request issued so far, with its consumer
  cancellations, \* session.cancellations: group name -> handles added
  timers,        \* the refreshPodAges intervals that are set
  ntimers,       \* intervals set so far
  logLines,      \* pod_logs.logLines
  nlines,        \* 'data' events of the log requests so far
  sinceTime      \* let sinceTime of each 'select' handler run, in order

driver == <<variant, async, upgrade, net, event, hadError, destroyed, aborted, abortEvt, cancels,
            clientAbort, serverAbort, promise, settles, body, status, destroyErr,
            gen, calls, ndata, escaped, dec, frame, payload, offset>>
wireVars  == <<wire, sent>>
frameVars == <<frameIn, frameOut>>
bodyVars  == <<chunks, received>>
appVars   == <<namespace, pod, listed, lists, nlists, streams, cancellations, timers, ntimers,
               logLines, nlines, sinceTime>>

vars == <<driver, wireVars, frameVars, bodyVars, appVars>>

conn    == <<upgrade, net, event, hadError, destroyed, status, destroyErr>>
client  == <<aborted, abortEvt, cancels, clientAbort>>
decoder == <<dec, frame, payload, offset>>

\* ------------------------------------------------------------ promise
Pending == [state |-> "pending", value |-> "none"]

\* resolve(response): the promise takes the response, whose body is b at that time
ResolveOverwrites(p, b) == [state |-> "resolved", value |-> b]
resolve(p, b) == IF p.state = "pending" THEN [state |-> "resolved", value |-> b] ELSE p

\* reject(error)
reject(p, e)  == IF p.state = "pending" THEN [state |-> "rejected", value |-> e] ELSE p

\* ---------------------------------------------------------- generator
\* The result of resuming a generator: its new state g, whether an exception
\* came out (thrown, with value the exception), else the iterator result
\* {done, value}; ran tells whether the generator's own code was executed.
Result(g, thrown, done, value, ran) ==
  [g |-> g, thrown |-> thrown, done |-> done, value |-> value, ran |-> ran]

React(o) ==
  CASE o.kind = "yield"  -> Result("suspended", FALSE, FALSE, o.val, TRUE)
    [] o.kind = "return" -> Result("done", FALSE, TRUE, o.val, TRUE)
    [] o.kind = "throw"  -> Result("done", TRUE, TRUE, o.val, TRUE)

\* gen.next(x): a finished generator answers {done: true, value: undefined}
GenNext(g, o) ==
  IF g = "suspended" THEN React(o) ELSE Result("done", FALSE, TRUE, "undefined", FALSE)

\* gen.throw(e): a finished generator throws e back at the caller
GenThrow(g, o) ==
  IF g = "suspended" THEN React(o) ELSE Result("done", TRUE, TRUE, "Request aborted", FALSE)

\* gen.return(): runs the finally blocks of a suspended generator, which
\* normally complete it, but may yield again or throw
GenReturn(g, o) ==
  IF g = "suspended"
  THEN CASE o.kind = "yield"  -> Result("suspended", FALSE, FALSE, o.val, TRUE)
         [] o.kind = "return" -> Result("done", FALSE, TRUE, "undefined", TRUE)
         [] o.kind = "throw"  -> Result("done", TRUE, TRUE, o.val, TRUE)
  ELSE Result("done", FALSE, TRUE, "undefined", FALSE)

\* one entry of calls: the method, the number of the 'data' event that caused
\* it (0: no argument), the bytes handed over on an upgraded connection,
\* whether the generator's code ran, and what came back
CallWith(op, arg, bytes, r) ==
  [op |-> op, arg |-> arg, data |-> bytes, ran |-> r.ran,
   thrown |-> r.thrown, done |-> r.done, value |-> r.value]
Call(op, arg, r) == CallWith(op, arg, <<>>, r)

\* ------------------------------------------------------------ decoder
\* frame[i] of a Buffer, 0-based; reading past the end gives undefined, which
\* the bit operators of the source turn into 0
Byte(f, i) == IF i < Len(f) THEN f[i + 1] ELSE 0

\* frame.slice(from)
Slice(f, from) == IF from >= Len(f) THEN <<>> ELSE SubSeq(f, from + 1, Len(f))

\* a ^ b on bytes
RECURSIVE Xor(_, _)
Xor(a, b) ==
  IF a = 0 /\ b = 0 THEN 0
  ELSE (((a % 2) + (b % 2)) % 2) + 2 * Xor(a \div 2, b \div 2)

\* payload[i] = payload[i] ^ maskingKey[i % 4]
Unmask(p, key) == [i \in 1..Len(p) |-> Xor(p[i], Byte(key, (i - 1) % 4))]

\* decodeFrame(frame): err is the exception it throws ("none": it returns).
\* Buffer has no readUInt64BE, so the call for length code 127 is a TypeError;
\* readUInt16BE past the end of the buffer is a RangeError.
decodeFrame(f) ==
  LET opcode == (Byte(f, 0)) % 16
      mask   == (Byte(f, 1) \div 128) % 2 = 1
      code   == (Byte(f, 1)) % 128
      err    == IF opcode = 8 THEN "none"
                ELSE IF code = 127 THEN "TypeError"
                ELSE IF code = 126 /\ Len(f) < 4 THEN "RangeError"
                ELSE "none"
      length == IF code = 126 THEN (Byte(f, 2) * 256) + Byte(f, 3) ELSE code
      next1  == IF code = 126 THEN 4 ELSE 2
      key    == IF next1 >= Len(f) THEN <<>>
                ELSE SubSeq(f, next1 + 1, IF next1 + 4 <= Len(f) THEN next1 + 4 ELSE Len(f))
      next2  == IF mask THEN next1 + 4 ELSE next1
      raw    == Slice(f, next2)
  IN  IF opcode = 8 \/ err # "none"
      THEN [err |-> err, opcode |-> opcode, length |-> 0, payload |-> <<>>]
      ELSE [err |-> "none", opcode |-> opcode, length |-> length,
            payload |-> IF mask THEN Unmask(raw, key) ELSE raw]

\* source.copy(target, at): target after the copy, and the bytes copied
CopyInto(target, at, source) ==
  [i \in 1..Len(target) |->
     IF i > at /\ i - at <= Len(source) THEN source[i - at] ELSE target[i]]
Copied(target, at, source) ==
  IF Len(source) <= Len(target) - at THEN Len(source) ELSE Len(target) - at

\* Buffer.alloc(n)
Alloc(n) == [i \in 1..n |-> 0]

\* ------------------------------------------------------------ request
\* the parts of the state a behaviour does not use stay as they are here
NoWire  == wire = <<>> /\ sent = <<>>
NotDecoded == [err |-> "pending", opcode |-> 0, length |-> 0, payload |-> <<>>]
NoFrame == frameIn = "none" /\ frameOut = NotDecoded
NoBody  == chunks = <<>> /\ received = <<>>
NoApp ==
  /\ namespace = "default" /\ pod = "null" /\ listed = FALSE
  /\ lists = <<>> /\ nlists = 0 /\ streams = <<>>
  /\ cancellations = [g \in {} |-> <<>>]
  /\ timers = {} /\ ntimers = 0
  /\ logLines = <<>> /\ nlines = 0 /\ sinceTime = <<>>

\* getStream has returned: the request is sent, the promise is pending and no
\* generator exists yet
Requested ==
  /\ variant \in {"lib", "kubik"}
  /\ async \in BOOLEAN
  /\ upgrade = FALSE
  /\ net = "sent"
  /\ event = "none"
  /\ hadError = FALSE
  /\ destroyed = FALSE
  /\ aborted = FALSE
  /\ abortEvt = FALSE
  /\ cancels = 0
  /\ clientAbort = FALSE
  /\ serverAbort = FALSE
  /\ promise = Pending
  /\ settles = 0
  /\ body = "undefined"
  /\ status = 0
  /\ destroyErr = "none"
  /\ gen = "none"
  /\ calls = <<>>
  /\ ndata = 0
  /\ escaped = {}
  /\ dec = "none"
  /\ frame = -1
  /\ payload = <<>>
  /\ offset = 0

Init == Requested /\ NoWire /\ NoFrame /\ NoBody /\ NoApp

\* No I/O event is handled while the 'abort' event waits in the nextTick queue.
Idle == ~abortEvt

\* cancellation = () => request.abort(): the first call marks the request
\* aborted, destroys the socket, takes the response's 'data' listeners away
\* and queues the 'abort' event; later calls find request.aborted set and
\* queue nothing.
cancellationRejecting ==
  /\ cancels < MaxCancel
  /\ cancels' = cancels + 1
  /\ aborted' = TRUE
  /\ abortEvt' = (abortEvt \/ ~aborted)
  /\ promise' = reject(promise, "Request aborted")
  /\ UNCHANGED <<variant, async, conn, clientAbort, serverAbort, settles,
                 body, gen, calls, ndata, escaped, decoder>>
cancellation ==
  /\ cancels < MaxCancel
  /\ cancels' = cancels + 1
  /\ aborted' = TRUE
  /\ abortEvt' = (abortEvt \/ ~aborted)
  /\ UNCHANGED <<variant, async, conn, clientAbort, serverAbort, promise, settles,
                 body, gen, calls, ndata, escaped, decoder>>

\* .on('abort', () => clientAbort = true)
OnAbort ==
  /\ abortEvt
  /\ abortEvt' = FALSE
  /\ clientAbort' = TRUE
  /\ UNCHANGED <<variant, async, conn, aborted, cancels, serverAbort, promise,
                 settles, body, gen, calls, ndata, escaped, decoder>>

\* The 'error' handler of the request: http-then.js has
\* if (!clientAbort) reject(error), kubik.js has .on('error', reject).
ErrorRejects == variant = "kubik" \/ ~clientAbort

\* .on('error', ...) of the request. The transport emits it when the
\* connection fails before a response or with no listener on the response
\* ("sent", "deaf"; also the socket hang up that follows request.abort()),
\* with the error given to response.destroy(error) ("gated"), and when the
\* socket fails under a streaming response, after which no 'data' follows.
OnError ==
  /\ Idle
  /\ \/ /\ net \in {"sent", "deaf"}
        /\ net' = "closed"
        /\ hadError' = TRUE
        /\ promise' = IF ErrorRejects THEN reject(promise, "socket") ELSE promise
     \/ /\ net = "gated"
        /\ net' = "closed"
        /\ hadError' = TRUE
        /\ promise' = IF ErrorRejects THEN reject(promise, destroyErr) ELSE promise
     \/ /\ net = "streaming" /\ ~upgrade /\ ~hadError /\ ~destroyed /\ ~aborted
        /\ net' = net
        /\ hadError' = TRUE
        /\ promise' = IF ErrorRejects THEN reject(promise, "socket") ELSE promise
  /\ settles' = IF ErrorRejects THEN settles + 1 ELSE settles
  /\ UNCHANGED <<variant, async, upgrade, event, destroyed, status, destroyErr, client,
                 serverAbort, body, gen, calls, ndata, escaped, decoder>>

\* if (response.statusCode >= 400)
StatusGateOff(st) == FALSE
StatusGate(st) == st >= 400

\* if (async) resolve(response), the last statement of the 'response' and of
\* the 'upgrade' handler
ResolvesEarlyNever == FALSE
ResolvesEarly == async

\* The status gate of both handlers: response.destroy(error) with
\* error.response = response, and return.
Gate ==
  /\ destroyErr' = "status"
  /\ destroyed' = TRUE
  /\ net' = "gated"
  /\ UNCHANGED <<upgrade, gen, calls, dec, promise, settles, escaped>>

\* .on('response', response => ...): the status gate, then generator(),
\* the priming gen.next(), the registration of the response's handlers and,
\* for async, resolve(response). An exception out of the priming leaves the
\* handler before anything is registered or resolved.
OnResponse ==
  /\ Idle /\ net = "sent" /\ ~aborted
  /\ event' = "response"
  /\ \E st \in ResponseStatus :
       /\ status' = st
       /\ IF StatusGate(st)
          THEN Gate
          ELSE \E o \in Outcomes :
                 LET r == GenNext("suspended", o) IN
                 /\ UNCHANGED <<destroyErr, destroyed, upgrade, dec>>
                 /\ gen' = r.g
                 /\ calls' = <<Call("next", 0, r)>>
                 /\ IF r.thrown
                    THEN /\ net' = "deaf"
                         /\ escaped' = escaped \cup {"response"}
                         /\ UNCHANGED <<promise, settles>>
                    ELSE /\ net' = "streaming"
                         /\ escaped' = escaped
                         /\ promise' = IF ResolvesEarly THEN resolve(promise, body) ELSE promise
                         /\ settles' = IF ResolvesEarly THEN settles + 1 ELSE settles
  /\ UNCHANGED <<variant, async, hadError, client, serverAbort, body, ndata, frame,
                 payload, offset>>

\* response.on('aborted', () => serverAbort = !clientAbort): emitted when the
\* socket closes before the response has ended, whoever closed it.
OnAborted ==
  /\ Idle /\ net = "streaming" /\ ~upgrade
  /\ serverAbort' = ~clientAbort
  /\ net' = "closing"
  /\ UNCHANGED <<variant, async, upgrade, event, hadError, destroyed, status, destroyErr,
                 client, promise, settles, body, gen, calls, ndata, escaped, decoder>>

\* if (res.done), in the 'data' handlers
DataDoneNever(r) == FALSE
DataDone(r) == r.done

\* response.on('data', chunk => ...). The chunks are numbered in the order the
\* transport emits them. Chunks parsed from the block being read are still
\* emitted after response.destroy(); none is emitted after request.abort() or
\* after a socket error.
OnDataOnce ==
  /\ Idle /\ net = "streaming" /\ ~upgrade /\ ~aborted /\ ~hadError
  /\ ndata < MaxData
  /\ ndata' = ndata + 1
  /\ \E o \in Outcomes :
       LET r == GenNext(gen, o) IN
       IF ndata >= 1
       THEN UNCHANGED <<gen, calls, destroyed, body, promise, settles, escaped>>
       ELSE
       /\ gen' = r.g
       /\ calls' = Append(calls, Call("next", ndata + 1, r))
       /\ IF r.thrown
          THEN /\ escaped' = escaped \cup {"data"}
               /\ UNCHANGED <<destroyed, body, promise, settles>>
          ELSE IF DataDone(r)
          THEN /\ destroyed' = TRUE
               /\ body' = r.value
               /\ promise' = resolve(promise, r.value)
               /\ settles' = settles + 1
               /\ escaped' = escaped
          ELSE UNCHANGED <<destroyed, body, promise, settles, escaped>>
  /\ UNCHANGED <<variant, async, upgrade, net, event, hadError, status, destroyErr, client,
                 serverAbort, decoder>>

OnData ==
  /\ Idle /\ net = "streaming" /\ ~upgrade /\ ~aborted /\ ~hadError
  /\ ndata < MaxData
  /\ ndata' = ndata + 1
  /\ \E o \in Outcomes :
       LET r == GenNext(gen, o) IN
       /\ gen' = r.g
       /\ calls' = Append(calls, Call("next", ndata + 1, r))
       /\ IF r.thrown
          THEN /\ escaped' = escaped \cup {"data"}
               /\ UNCHANGED <<destroyed, body, promise, settles>>
          ELSE IF DataDone(r)
          THEN /\ destroyed' = TRUE
               /\ body' = r.value
               /\ promise' = resolve(promise, r.value)
               /\ settles' = settles + 1
               /\ escaped' = escaped
          ELSE UNCHANGED <<destroyed, body, promise, settles, escaped>>
  /\ UNCHANGED <<variant, async, upgrade, net, event, hadError, status, destroyErr, client,
                 serverAbort, decoder>>

\* if (serverAbort || clientAbort && !async)
AbortBranch == serverAbort \/ (clientAbort /\ ~async)

\* else if (!(clientAbort && async))
GracefulBranch == ~(clientAbort /\ async)

\* if (!async && !res.done), in both branches of the 'end' handlers
ResolvesOnEnd(r) == ~async /\ ~r.done

\* catch (e) { if (!async) reject(e) }
CatchRejectsNever == FALSE
CatchRejects == ~async

\* The end of the 'end' handlers: gen.return(), outside any try block.
Dispose(g, cs, where) ==
  \E o \in Outcomes :
    LET r == GenReturn(g, o) IN
    /\ gen' = r.g
    /\ calls' = Append(cs, Call("return", 0, r))
    /\ escaped' = IF r.thrown THEN escaped \cup {where} ELSE escaped

\* response.on('end', ...): the abort branch (gen.throw), the graceful branch
\* (gen.next()), or neither for a client abort in async mode; then
\* gen.return(), unless gen.next() let an exception out of the handler.
\* 'end' follows 'aborted'; without it, it is the end of a complete response.
OnEnd ==
  /\ Idle /\ ~upgrade
  /\ \/ net = "closing"
     \/ net = "streaming" /\ ~hadError /\ ~destroyed /\ ~aborted
  /\ net' = "ended"
  /\ \/ /\ AbortBranch
        /\ \E o \in ThrowReactions :
             LET r == GenThrow(gen, o) IN
             IF r.thrown
             THEN /\ promise' = IF CatchRejects THEN reject(promise, r.value) ELSE promise
                  /\ settles' = IF CatchRejects THEN settles + 1 ELSE settles
                  /\ body' = body
                  /\ Dispose(r.g, Append(calls, Call("throw", 0, r)), "end")
             ELSE /\ promise' = IF ResolvesOnEnd(r) THEN resolve(promise, r.value) ELSE promise
                  /\ settles' = IF ResolvesOnEnd(r) THEN settles + 1 ELSE settles
                  /\ body' = IF ResolvesOnEnd(r) THEN r.value ELSE body
                  /\ Dispose(r.g, Append(calls, Call("throw", 0, r)), "end")
     \/ /\ ~AbortBranch /\ GracefulBranch
        /\ \E o \in Outcomes :
             LET r == GenNext(gen, o) IN
             IF r.thrown
             THEN /\ gen' = r.g
                  /\ calls' = Append(calls, Call("next", 0, r))
                  /\ escaped' = escaped \cup {"end"}
                  /\ UNCHANGED <<promise, settles, body>>
             ELSE /\ promise' = IF ResolvesOnEnd(r) THEN resolve(promise, r.value) ELSE promise
                  /\ settles' = IF ResolvesOnEnd(r) THEN settles + 1 ELSE settles
                  /\ body' = IF ResolvesOnEnd(r) THEN r.value ELSE body
                  /\ Dispose(r.g, Append(calls, Call("next", 0, r)), "end")
     \/ /\ ~AbortBranch /\ ~GracefulBranch
        /\ UNCHANGED <<promise, settles, body>>
        /\ Dispose(gen, calls, "end")
  /\ UNCHANGED <<variant, async, upgrade, event, hadError, destroyed, status, destroyErr,
                 client, serverAbort, ndata, decoder>>

\* ------------------------------------------------------------ upgrade
\* blocks an upgraded socket may deliver in one 'data' event: a whole unmasked
\* one-byte text frame, the head of a two-byte frame, a lone payload byte, a
\* close frame, a whole masked one-byte frame, and a close frame that carries
\* the status code 1000
SocketBlocks ==
  { <<129, 1, 65>>, <<129, 2, 65>>, <<66>>, <<136, 0>>, <<129, 129, 1, 2, 3, 4, 64>>,
    <<136, 2, 3, 232>> }

\* if (frame.opcode === 0x8) break
IsCloseNever(fr) == FALSE
IsClose(fr) == fr.opcode = 8

\* One turn of decode()'s loop, entered with data = d at its yield; o is what
\* the wrapped generator does if it is resumed. The result holds decode's
\* variables afterwards, the state of both generators, the calls made, and how
\* the turn ended for the caller of next(): thrown, done (with value) or
\* suspended at the yield again.
decode(d, o, n) ==
  LET fresh   == frame = -1
      fr      == decodeFrame(d)
      whole   == Len(fr.payload) = fr.length
      flen    == IF fresh THEN fr.length ELSE frame
      buf     == IF fresh
                 THEN IF whole THEN fr.payload ELSE CopyInto(Alloc(fr.length), 0, fr.payload)
                 ELSE CopyInto(payload, offset, d)
      off     == IF fresh
                 THEN IF whole THEN Len(fr.payload) ELSE Copied(Alloc(fr.length), 0, fr.payload)
                 ELSE offset + Copied(payload, offset, d)
      stay    == [dec |-> "suspended", frame |-> flen, payload |-> buf, offset |-> off,
                  gen |-> gen, calls |-> calls, thrown |-> FALSE, done |-> FALSE,
                  value |-> "undefined"]
  IN  IF fresh /\ fr.err # "none"
      THEN [stay EXCEPT !.dec = "done", !.frame = frame, !.payload = payload,
                        !.offset = offset, !.thrown = TRUE, !.done = TRUE, !.value = fr.err]
      ELSE IF fresh /\ IsClose(fr)
      THEN LET r == GenNext(gen, o) IN
           [stay EXCEPT !.dec = "done", !.frame = 0, !.payload = payload, !.offset = offset,
                        !.gen = r.g, !.calls = Append(calls, Call("next", 0, r)),
                        !.thrown = r.thrown, !.done = TRUE, !.value = r.value]
      ELSE IF off = flen
      THEN LET r == GenNext(gen, o) IN
           [stay EXCEPT !.dec = IF r.done THEN "done" ELSE "suspended",
                        !.frame = -1,
                        !.gen = r.g, !.calls = Append(calls, CallWith("next", n, buf, r)),
                        !.thrown = r.thrown, !.done = r.done, !.value = r.value]
      ELSE stay

\* if (response.statusCode !== 101)
UpgradeGate(st) == st # 101

\* .on('upgrade', (response, socket, head) => ...): the status gate, then
\* decode(generator()) and its priming next(), which primes the wrapped
\* generator in turn, the socket's handlers and, for async, resolve(response).
OnUpgrade ==
  /\ Idle /\ net = "sent" /\ ~aborted /\ variant = "lib"
  /\ event' = "upgrade"
  /\ \E st \in UpgradeStatus :
       /\ status' = st
       /\ IF UpgradeGate(st)
          THEN Gate
          ELSE \E o \in Outcomes :
                 LET r == GenNext("suspended", o) IN
                 /\ UNCHANGED <<destroyErr, destroyed>>
                 /\ gen' = r.g
                 /\ calls' = <<Call("next", 0, r)>>
                 /\ IF r.thrown
                    THEN /\ net' = "deaf"
                         /\ dec' = "done"
                         /\ escaped' = escaped \cup {"upgrade"}
                         /\ UNCHANGED <<upgrade, promise, settles>>
                    ELSE /\ net' = "streaming"
                         /\ upgrade' = TRUE
                         /\ dec' = "suspended"
                         /\ escaped' = escaped
                         /\ promise' = IF ResolvesEarly THEN resolve(promise, body) ELSE promise
                         /\ settles' = IF ResolvesEarly THEN settles + 1 ELSE settles
  /\ UNCHANGED <<variant, async, hadError, client, serverAbort, body, ndata, frame,
                 payload, offset>>

\* socket.on('data', frame => ...): gen.next(frame) on the decoder and, when
\* the decoder is done, socket.end(), response.body = res.value, resolve.
SocketData(d) ==
  /\ ndata' = ndata + 1
  /\ \E o \in Outcomes :
       LET t == IF dec = "suspended" THEN decode(d, o, ndata + 1)
                ELSE [dec |-> "done", frame |-> frame, payload |-> payload,
                      offset |-> offset, gen |-> gen, calls |-> calls, thrown |-> FALSE,
                      done |-> TRUE, value |-> "undefined"]
       IN
       /\ dec' = t.dec /\ frame' = t.frame /\ payload' = t.payload /\ offset' = t.offset
       /\ gen' = t.gen /\ calls' = t.calls
       /\ IF t.thrown
          THEN /\ escaped' = escaped \cup {"data"}
               /\ UNCHANGED <<destroyed, body, promise, settles>>
          ELSE IF DataDone(t)
          THEN /\ destroyed' = TRUE
               /\ body' = t.value
               /\ promise' = resolve(promise, t.value)
               /\ settles' = settles + 1
               /\ escaped' = escaped
          ELSE UNCHANGED <<destroyed, body, promise, settles, escaped>>
  /\ UNCHANGED <<variant, async, upgrade, net, event, hadError, status, destroyErr, client,
                 serverAbort>>

\* a 'data' event of the upgraded socket, with any of the blocks
OnSocketData ==
  /\ Idle /\ net = "streaming" /\ upgrade /\ ~aborted
  /\ ndata < MaxData
  /\ \E d \in SocketBlocks : SocketData(d)

\* socket.on('end', ...): unless the client aborted, gen.next() on the decoder,
\* which leaves its loop and returns what the wrapped generator answers to
\* its gen.next(), so that res.done is true and nothing is resolved; then
\* gen.return() on the decoder, which never reaches the wrapped generator.
OnSocketEnd ==
  /\ Idle /\ net = "streaming" /\ upgrade
  /\ net' = "ended"
  /\ \/ /\ ~clientAbort /\ dec = "suspended"
        /\ \E o \in Outcomes :
             LET r == GenNext(gen, o) IN
             /\ gen' = r.g
             /\ calls' = Append(calls, Call("next", 0, r))
             /\ escaped' = IF r.thrown THEN escaped \cup {"end"} ELSE escaped
     \/ /\ clientAbort \/ dec # "suspended"
        /\ UNCHANGED <<gen, calls, escaped>>
  /\ dec' = "done"
  /\ UNCHANGED <<variant, async, upgrade, event, hadError, destroyed, status, destroyErr,
                 client, serverAbort, promise, settles, body, ndata, frame, payload, offset>>

Next ==
  \/ OnUpgrade    /\ UNCHANGED <<wireVars, frameVars, bodyVars, appVars>>
  \/ OnSocketData /\ UNCHANGED <<wireVars, frameVars, bodyVars, appVars>>
  \/ OnSocketEnd  /\ UNCHANGED <<wireVars, frameVars, bodyVars, appVars>>
  \/ cancellation /\ UNCHANGED <<wireVars, frameVars, bodyVars, appVars>>
  \/ OnAbort      /\ UNCHANGED <<wireVars, frameVars, bodyVars, appVars>>
  \/ OnError      /\ UNCHANGED <<wireVars, frameVars, bodyVars, appVars>>
  \/ OnResponse   /\ UNCHANGED <<wireVars, frameVars, bodyVars, appVars>>
  \/ OnAborted    /\ UNCHANGED <<wireVars, frameVars, bodyVars, appVars>>
  \/ OnData       /\ UNCHANGED <<wireVars, frameVars, bodyVars, appVars>>
  \/ OnEnd        /\ UNCHANGED <<wireVars, frameVars, bodyVars, appVars>>

Spec == Init /\ [][Next]_vars

\* ------------------------------------------------------------- frames
\* What a server puts on an upgraded connection, the counterpart of
\* decodeFrame: the header byte with FIN and the opcode, the byte with the mask
\* bit and the 7-bit length code, the extended length (2 bytes for code 126,
\* 8 bytes for code 127, big-endian), the masking key if any, and the payload
\* XORed with the key.
RECURSIVE BE(_, _)
BE(n, w) == IF w = 0 THEN <<>> ELSE BE(n \div 256, w - 1) \o <<n % 256>>

LengthCode(len) == IF len < 126 THEN len ELSE IF len < 65536 THEN 126 ELSE 127

ExtendedLength(code, len) ==
  IF code = 126 THEN BE(len, 2) ELSE IF code = 127 THEN BE(len, 8) ELSE <<>>

\* the bytes of a frame of the given opcode, length code, declared length and
\* key (<<>>: not masked), followed by the given payload bytes
Encode(opcode, code, len, key, bytes) ==
  <<128 + opcode, (IF key = <<>> THEN 0 ELSE 128) + code>>
    \o ExtendedLength(code, len) \o key
    \o (IF key = <<>> THEN bytes ELSE Unmask(bytes, key))

\* opcodes (text, binary, close), keys and leading payload bytes of the frames
\* handed to decodeFrame, and the declared lengths tried for each length code
FrameOpcodes  == {1, 2, 8}
FrameKeys     == {<<>>, <<1, 2, 3, 4>>}
FramePayloads == {<<>>, <<65>>, <<65, 66, 67, 68, 69>>}
FrameLengths(code) ==
  IF code < 126 THEN {code}
  ELSE IF code = 126 THEN {126, 255, 256, 65535}
  ELSE {65536, 16777216}

\* the single-frame text messages a server sends: payload and masking key
WireFrames ==
  { [payload |-> <<65>>, key |-> <<>>], [payload |-> <<66, 67>>, key |-> <<>>],
    [payload |-> <<66, 67>>, key |-> <<1, 2, 3, 4>>] }

\* the byte stream of a sequence of such messages
RECURSIVE Wire(_)
Wire(fs) ==
  IF fs = <<>> THEN <<>>
  ELSE Encode(1, LengthCode(Len(Head(fs).payload)), Len(Head(fs).payload),
              Head(fs).key, Head(fs).payload) \o Wire(Tail(fs))

\* get() on http-then.js towards a server that upgrades the connection and
\* sends up to MaxFrames messages
InitWire ==
  /\ Requested /\ variant = "lib" /\ NoFrame /\ NoBody /\ NoApp
  /\ sent \in UNION {[1..n -> WireFrames] : n \in 1..MaxFrames}
  /\ wire = Wire(sent)

\* a 'data' event of the upgraded socket: TCP delivers the next bytes of the
\* stream in a block of any size, MaxData times at most
OnWireData ==
  /\ Idle /\ net = "streaming" /\ upgrade /\ ~aborted
  /\ ndata < MaxData
  /\ \E k \in 1..Len(wire) :
       /\ SocketData(SubSeq(wire, 1, k))
       /\ wire' = SubSeq(wire, k + 1, Len(wire))
  /\ UNCHANGED <<sent, frameVars, bodyVars, appVars>>

\* the server closes the connection after its last byte
OnWireEnd ==
  /\ wire = <<>>
  /\ OnSocketEnd
  /\ UNCHANGED <<wireVars, frameVars, bodyVars, appVars>>

NextWire ==
  \/ OnUpgrade /\ UNCHANGED <<wireVars, frameVars, bodyVars, appVars>>
  \/ OnWireData
  \/ OnWireEnd

SpecWire == InitWire /\ [][NextWire]_vars

InitFrame ==
  /\ Requested /\ variant = "lib" /\ async /\ NoWire /\ NoBody /\ NoApp
  /\ \E opcode \in FrameOpcodes, code \in 0..127, key \in FrameKeys, p \in FramePayloads :
       \E len \in FrameLengths(code) :
         frameIn = [opcode |-> opcode, code |-> code, length |-> len, key |-> key,
                    payload |-> p, bytes |-> Encode(opcode, code, len, key, p)]
  /\ frameOut = NotDecoded

\* const frame = decodeFrame(data)
DecodeFrame ==
  /\ frameOut = NotDecoded
  /\ frameOut' = decodeFrame(frameIn.bytes)
  /\ UNCHANGED <<driver, wireVars, frameIn, bodyVars, appVars>>

NextFrame == DecodeFrame

SpecFrame == InitFrame /\ [][NextFrame]_vars

\* ------------------------------------------------------------ getBody
\* chunks a response may emit
BodyChunks == {<<1>>, <<2, 3>>}

\* Buffer.concat(body)
RECURSIVE Concat(_)
Concat(bs) == IF bs = <<>> THEN <<>> ELSE Head(bs) \o Concat(Tail(bs))

\* body.push(chunk)
PushFront(b, chunk) == <<chunk>> \o b
Push(b, chunk) == Append(b, chunk)

\* get(options) without generator: getBody has returned its pending promise
InitBody ==
  /\ Requested /\ async /\ NoWire /\ NoFrame /\ NoApp
  /\ chunks = <<>>
  /\ received = <<>>

\* client.get(options, response => ...): the status gate, which destroys the
\* response with an error that carries it, or the 'data' and 'end' handlers
OnBodyResponse ==
  /\ net = "sent"
  /\ event' = "response"
  /\ \E st \in ResponseStatus :
       /\ status' = st
       /\ IF StatusGate(st)
          THEN /\ destroyErr' = "status"
               /\ destroyed' = TRUE
               /\ net' = "gated"
          ELSE /\ net' = "streaming"
               /\ UNCHANGED <<destroyErr, destroyed>>
  /\ UNCHANGED <<variant, async, upgrade, hadError, client, serverAbort, promise, settles,
                 body, gen, calls, ndata, escaped, decoder, wireVars, frameVars, bodyVars, appVars>>

\* .on('data', chunk => body.push(chunk))
OnBodyData ==
  /\ net = "streaming" /\ ~hadError
  /\ ndata < MaxData
  /\ ndata' = ndata + 1
  /\ \E chunk \in BodyChunks :
       /\ received' = Append(received, chunk)
       /\ chunks' = Push(chunks, chunk)
  /\ UNCHANGED <<variant, async, conn, client, serverAbort, promise, settles, body, gen, calls,
                 escaped, decoder, wireVars, frameVars, appVars>>

\* the connection closes before the response is complete: 'aborted', then 'end'
OnBodyAborted ==
  /\ net = "streaming"
  /\ net' = "closing"
  /\ UNCHANGED <<variant, async, upgrade, event, hadError, destroyed, status, destroyErr, client,
                 serverAbort, promise, settles, body, gen, calls, ndata, escaped, decoder,
                 wireVars, frameVars, bodyVars, appVars>>

\* .on('end', () => { response.body = Buffer.concat(body); resolve(response) })
OnBodyEnd ==
  /\ \/ net = "closing"
     \/ net = "streaming" /\ ~hadError
  /\ net' = "ended"
  /\ body' = Concat(chunks)
  /\ promise' = resolve(promise, [status |-> status, body |-> Concat(chunks)])
  /\ settles' = settles + 1
  /\ UNCHANGED <<variant, async, upgrade, event, hadError, destroyed, status, destroyErr, client,
                 serverAbort, gen, calls, ndata, escaped, decoder, wireVars, frameVars,
                 bodyVars, appVars>>

\* .on('error', reject): a socket error before the response, the error given
\* to response.destroy(error) by the status gate, or a socket error under a
\* response in progress, which is then aborted
OnBodyError ==
  /\ \/ /\ net = "sent"
        /\ net' = "closed"
        /\ promise' = reject(promise, [error |-> "socket"])
        /\ UNCHANGED hadError
     \/ /\ net = "gated"
        /\ net' = "closed"
        /\ promise' = reject(promise, [error |-> destroyErr, response |-> [status |-> status]])
        /\ UNCHANGED hadError
     \/ /\ net = "streaming" /\ ~hadError
        /\ hadError' = TRUE
        /\ net' = "closing"
        /\ promise' = reject(promise, [error |-> "socket"])
  /\ settles' = settles + 1
  /\ UNCHANGED <<variant, async, upgrade, event, destroyed, status, destroyErr, client,
                 serverAbort, body, gen, calls, ndata, escaped, decoder, wireVars, frameVars,
                 bodyVars, appVars>>

NextBody ==
  \/ OnBodyResponse
  \/ OnBodyData
  \/ OnBodyAborted
  \/ OnBodyEnd
  \/ OnBodyError

SpecBody == InitBody /\ [][NextBody]_vars

\* ---------------------------------------------------------- dashboard
\* Strings are sequences of characters. Undefined stands for the value
\* undefined, which String.prototype.startsWith turns into the text
\* "undefined" and on which a method call is a TypeError.
Undefined == <<"undefined">>

\* s.indexOf(ch)
IndexOf(s, ch) ==
  IF \E i \in 1..Len(s) : s[i] = ch
  THEN (CHOOSE i \in 1..Len(s) : s[i] = ch /\ \A j \in 1..(i - 1) : s[j] # ch) - 1
  ELSE -1

\* s.substring(from, to) and s.substring(from): a negative index counts as 0
Substring(s, from, to) ==
  LET a == IF from < 0 THEN 0 ELSE from
      b == IF to < 0 THEN 0 ELSE IF to > Len(s) THEN Len(s) ELSE to
  IN  IF a <= b THEN SubSeq(s, a + 1, b) ELSE SubSeq(s, b + 1, a)
SubstringFrom(s, from) == Substring(s, from, Len(s))

\* s.startsWith(prefix)
StartsWith(s, prefix) ==
  Len(prefix) <= Len(s) /\ SubSeq(s, 1, Len(prefix)) = prefix

\* chunks of a log response (timestamps=true): two lines made of a timestamp
\* (seconds, '.', fraction), a space and a message, and a fragment of a line
\* without any space
LogChunks ==
  { <<"1", ".", "0", " ", "a">>, <<"2", ".", "0", " ", "a">>, <<"x">> }

Namespaces == {"default", "kube-system"}
Pods       == {"p1", "p2"}

\* the groups the dashboard uses
Groups == {"dashboard", "dashboard.logs", "dashboard.refreshPodAges"}

\* session.cancellations.add(group, handle)
add(reg, group, handle) == [reg EXCEPT ![group] = Append(@, handle)]

\* a streaming request as get(options, generator) leaves it: the request is
\* sent, no generator exists yet; cursor is the sinceTime parameter of the
\* path (NoParam: none), closure the run of the 'select' handler whose logger it
\* feeds (0 for the pod watch), parent the request whose consumer issued it,
\* signal what the 'end' handler has raised in the consumer
Stream(kind, ns, p, cursor, closure, parent) ==
  [kind |-> kind, ns |-> ns, pod |-> p, cursor |-> cursor, closure |-> closure,
   parent |-> parent, net |-> "sent", clientAbort |-> FALSE, serverAbort |-> FALSE,
   gen |-> "none", log |-> Undefined, timestamp |-> Undefined, ndata |-> 0,
   signal |-> "none"]

\* get_logs(namespace, pod, sinceTime): sinceTime ? `&sinceTime=${sinceTime}` : ''
NoParam == <<"none">>
SinceTimeParam(t) == IF t = Undefined \/ t = <<>> THEN NoParam ELSE t

\* cancellation = () => request.abort(), with the 'abort' event that follows
\* it before any I/O: clientAbort is set, the socket is destroyed, and a
\* request without response yet fails with its 'error' event.
Abort(st) ==
  [st EXCEPT !.clientAbort = TRUE,
             !.net = IF st.net = "sent" THEN "closed" ELSE st.net]

\* session.cancellations.run(group): the streams and the timers after every
\* handle of the group has been invoked; the group is emptied
Handles(reg, group) == {reg[group][i] : i \in DOMAIN reg[group]}
RunStreams(reg, group, ss) ==
  [i \in DOMAIN ss |->
     IF [kind |-> "request", id |-> i] \in Handles(reg, group) THEN Abort(ss[i]) ELSE ss[i]]
RunTimers(reg, group, ts) ==
  {t \in ts : [kind |-> "interval", id |-> t] \notin Handles(reg, group)}
run(reg, group) == [reg EXCEPT ![group] = <<>>]

\* the group names in the source: the one pods_table's 'select' handler
\* runs and adds to, the one logger's catch block adds to, and the one
\* dashboard() adds the pod watch to
LogsRunGroup     == "dashboard.logs"
SelectGroup      == "dashboard.logs"
ReconnectGroupWrong == "dashboard"
ReconnectGroup   == "dashboard.logs"
WatchGroup       == "dashboard"

\* kubik.js as it runs dashboard() for the first time
InitApp ==
  /\ Requested /\ variant = "kubik" /\ async /\ NoWire /\ NoFrame /\ NoBody
  /\ namespace = "default"
  /\ pod = "null"
  /\ listed = FALSE
  /\ lists = <<[ns |-> "default", after |-> 0]>>
  /\ nlists = 1
  /\ streams = <<>>
  /\ cancellations = [g \in Groups |-> <<>>]
  /\ timers = {}
  /\ ntimers = 0
  /\ logLines = <<>>
  /\ nlines = 0
  /\ sinceTime = <<>>

\* requests issued so far; every handler that issues one more is held back
\* once MaxRequests are reached
Requests == nlists + Len(streams)

\* dashboard(): get(get_pods(session.namespace)); after is the pod watch whose
\* consumer called it (0: none)
Dashboard(ls, after) == Append(ls, [ns |-> namespace, after |-> after])

\* the pod list arrives: session.pods is set, the refreshPodAges interval is
\* set and added, then get(watch_pods(session.namespace, ...), updatePodTable)
\* and its cancellation added
OnPodList ==
  /\ lists # <<>>
  /\ Requests < MaxRequests
  /\ \E i \in DOMAIN lists :
       LET id == Len(streams) + 1
           withTimer == add(cancellations, "dashboard.refreshPodAges",
                            [kind |-> "interval", id |-> ntimers + 1])
       IN
       /\ lists' = SubSeq(lists, 1, i - 1) \o SubSeq(lists, i + 1, Len(lists))
       /\ listed' = TRUE
       /\ timers' = timers \cup {ntimers + 1}
       /\ ntimers' = ntimers + 1
       /\ streams' = Append(streams, Stream("watch", namespace, "null", NoParam, 0, lists[i].after))
       /\ cancellations' = add(withTimer, WatchGroup, [kind |-> "request", id |-> id])
  /\ UNCHANGED <<driver, wireVars, frameVars, bodyVars, nlines, namespace, pod, nlists, logLines,
                 sinceTime>>

\* the pod list request fails: dashboard().catch(error => console.error(...))
OnPodListError ==
  /\ \E i \in DOMAIN lists :
       lists' = SubSeq(lists, 1, i - 1) \o SubSeq(lists, i + 1, Len(lists))
  /\ UNCHANGED <<driver, wireVars, frameVars, bodyVars, nlines, namespace, pod, listed, nlists, streams,
                 cancellations, timers, ntimers, logLines, sinceTime>>

\* pods_table.on('select', ...): the logs group is run, the log widget is
\* emptied, and a log request with a new logger (and its own sinceTime) is
\* issued and its cancellation added
SelectPod ==
  /\ listed
  /\ Requests < MaxRequests
  /\ \E p \in Pods :
       /\ p # pod
       /\ pod' = p
       /\ logLines' = <<>>
       /\ sinceTime' = Append(sinceTime, Undefined)
       /\ LET ran == RunStreams(cancellations, LogsRunGroup, streams)
              id  == Len(streams) + 1
          IN  /\ streams' = Append(ran, Stream("logs", namespace, p, SinceTimeParam(Undefined),
                                               Len(sinceTime) + 1, 0))
              /\ cancellations' = add(run(cancellations, LogsRunGroup), SelectGroup,
                                      [kind |-> "request", id |-> id])
              /\ timers' = RunTimers(cancellations, LogsRunGroup, timers)
  /\ UNCHANGED <<driver, wireVars, frameVars, bodyVars, nlines, namespace, listed, lists, nlists, ntimers>>

\* namespaces_list.on('select', ...): the 'dashboard' group is run, the log
\* widget is emptied, the session is switched, and dashboard() is called
SelectNamespace ==
  /\ Requests < MaxRequests
  /\ \E n \in Namespaces :
       /\ n # namespace
       /\ namespace' = n
       /\ pod' = "null"
       /\ logLines' = <<>>
       /\ streams' = RunStreams(cancellations, "dashboard", streams)
       /\ timers' = RunTimers(cancellations, "dashboard", timers)
       /\ cancellations' = run(cancellations, "dashboard")
       /\ lists' = Append(lists, [ns |-> n, after |-> 0])
       /\ nlists' = nlists + 1
  /\ UNCHANGED <<driver, wireVars, frameVars, bodyVars, nlines, listed, ntimers, sinceTime>>

\* the 'response' event of a streaming request: the status gate destroys the
\* response and its error rejects the promise; otherwise generator() is
\* created and primed
OnStreamResponse ==
  \E id \in DOMAIN streams, st \in ResponseStatus :
    /\ streams[id].net = "sent"
    /\ streams' = [streams EXCEPT ![id] =
                     IF StatusGate(st) THEN [@ EXCEPT !.net = "closed"]
                     ELSE [@ EXCEPT !.net = "streaming", !.gen = "suspended"]]
    /\ UNCHANGED <<driver, wireVars, frameVars, bodyVars, nlines, namespace, pod, listed, lists, nlists,
                   cancellations, timers, ntimers, logLines, sinceTime>>

\* the 'error' event of a request without response: .on('error', reject)
OnStreamError ==
  \E id \in DOMAIN streams :
    /\ streams[id].net = "sent"
    /\ streams' = [streams EXCEPT ![id].net = "closed"]
    /\ UNCHANGED <<driver, wireVars, frameVars, bodyVars, nlines, namespace, pod, listed, lists, nlists,
                   cancellations, timers, ntimers, logLines, sinceTime>>

\* the body of logger's loop for one chunk: the timestamp it keeps and the
\* log widget's lines afterwards
LoggerTimestamp(log) == Substring(log, 0, IndexOf(log, " "))
LoggerMessage(log)   == SubstringFrom(log, IndexOf(log, " ") + 1)
LoggerShowsAll(log, since, lines) == TRUE
LoggerShows(log, since, lines) ==
  \/ ~StartsWith(LoggerTimestamp(log), since)
  \/ ~(\E i \in DOMAIN lines : lines[i] = LoggerMessage(log))
LoggerLines(log, since, lines) ==
  IF LoggerShows(log, since, lines) THEN Append(lines, LoggerMessage(log)) ELSE lines

\* a 'data' event of a streaming request: gen.next(chunk), which runs one turn
\* of logger's loop or of updatePodTable's; the latter changes the items of
\* session.pods only, which are not part of this state
OnStreamData ==
  \E id \in DOMAIN streams, chunk \in LogChunks :
    LET st == streams[id] IN
    /\ st.net = "streaming" /\ ~st.clientAbort /\ st.gen = "suspended"
    /\ nlines < MaxLines
    /\ IF st.kind = "logs"
       THEN /\ nlines' = nlines + 1
            /\ streams' = [streams EXCEPT ![id].ndata = @ + 1, ![id].log = chunk,
                                          ![id].timestamp = LoggerTimestamp(chunk)]
            /\ logLines' = LoggerLines(chunk, sinceTime[st.closure], logLines)
       ELSE UNCHANGED <<nlines, streams, logLines>>
    /\ UNCHANGED <<driver, wireVars, frameVars, bodyVars, namespace, pod, listed, lists, nlists,
                   cancellations, timers, ntimers, sinceTime>>

\* .on('aborted', () => serverAbort = !clientAbort), for a response that ends
\* because its connection was closed (abrupt): by the server, or by
\* request.abort(). Node emits 'aborted' and then, from the same turn of the
\* event loop, 'end', so no other handler runs between the two.
ServerAbort(st, abrupt) == abrupt /\ ~st.clientAbort

\* What the 'end' handler does to the consumer before gen.return():
\* if (serverAbort || clientAbort && !async) gen.throw(...),
\* else if (!(clientAbort && async)) gen.next(), else nothing
EndSignalFaultOnCancel(ca, sa) == IF sa \/ ca THEN "throw" ELSE "next"
EndSignal(ca, sa) ==
  IF sa \/ (ca /\ ~async) THEN "throw"
  ELSE IF ~(ca /\ async) THEN "next"
  ELSE "none"

\* the 'end' handler of getStream with async = true, for a log request:
\* gen.throw() runs logger's catch block, which throws a TypeError on an
\* undefined timestamp and else sets sinceTime, issues the request that
\* continues from the timestamp and adds its cancellation; gen.next() makes
\* logger leave its loop and return; gen.return() finds it finished.
OnLogsEnd ==
  \E id \in DOMAIN streams, abrupt \in BOOLEAN :
    LET st    == streams[id]
        sig   == EndSignal(st.clientAbort, ServerAbort(st, abrupt))
        ended == [streams EXCEPT ![id].net = "ended", ![id].gen = "done",
                                 ![id].serverAbort = ServerAbort(st, abrupt),
                                 ![id].signal = sig]
        new   == Len(streams) + 1
    IN
    /\ st.kind = "logs"
    /\ st.net = "streaming"
    /\ st.clientAbort => abrupt
    /\ IF sig = "throw" /\ st.timestamp # Undefined
       THEN /\ Requests < MaxRequests
            /\ sinceTime' = [sinceTime EXCEPT ![st.closure] =
                               Substring(st.timestamp, 0, IndexOf(st.timestamp, "."))]
            /\ streams' = Append(ended, Stream("logs", namespace, st.pod,
                                               SinceTimeParam(st.timestamp), st.closure, id))
            /\ cancellations' = add(cancellations, ReconnectGroup,
                                    [kind |-> "request", id |-> new])
       ELSE /\ streams' = ended
            /\ UNCHANGED <<sinceTime, cancellations>>
    /\ UNCHANGED <<driver, wireVars, frameVars, bodyVars, nlines, namespace, pod, listed, lists,
                   nlists, timers, ntimers, logLines>>

\* the same handler for the pod watch: gen.throw() comes out of
\* updatePodTable, which has no try block, and is swallowed; gen.next() makes
\* it leave its loop, run the refreshPodAges group and call dashboard();
\* gen.return() finds it finished.
OnWatchEnd ==
  \E id \in DOMAIN streams, abrupt \in BOOLEAN :
    LET st  == streams[id]
        sig == EndSignal(st.clientAbort, ServerAbort(st, abrupt))
    IN
    /\ st.kind = "watch"
    /\ st.net = "streaming"
    /\ st.clientAbort => abrupt
    /\ streams' = [streams EXCEPT ![id].net = "ended", ![id].gen = "done",
                                  ![id].serverAbort = ServerAbort(st, abrupt),
                                  ![id].signal = sig]
    /\ IF sig = "next"
       THEN /\ Requests < MaxRequests
            /\ timers' = RunTimers(cancellations, "dashboard.refreshPodAges", timers)
            /\ cancellations' = run(cancellations, "dashboard.refreshPodAges")
            /\ lists' = Dashboard(lists, id)
            /\ nlists' = nlists + 1
       ELSE UNCHANGED <<timers, cancellations, lists, nlists>>
    /\ UNCHANGED <<driver, wireVars, frameVars, bodyVars, nlines, namespace, pod, listed,
                   ntimers, logLines, sinceTime>>

NextApp ==
  \/ OnPodList
  \/ OnPodListError
  \/ SelectPod
  \/ SelectNamespace
  \/ OnStreamResponse
  \/ OnStreamError
  \/ OnStreamData
  \/ OnLogsEnd
  \/ OnWatchEnd

SpecApp == InitApp /\ [][NextApp]_vars

\* ------------------------------------------------------------- claims
IsPrime(i)  == i = 1
IsChunk(i)  == i > 1 /\ calls[i].op = "next" /\ calls[i].arg > 0
IsEnd(i)    == i > 1 /\ calls[i].op = "next" /\ calls[i].arg = 0
IsThrow(i)  == calls[i].op = "throw"
IsReturn(i) == calls[i].op = "return"
Plain       == event = "response" /\ ~upgrade
Terminated  == net \in {"ended", "closed"}

\* C1: the promise changes state at most once: once it is resolved or
\* rejected, no later resolve or reject call, from whatever handler and in
\* whatever order the events come, changes its state or its value.
C1_SingleResolution == [][promise.state # "pending" => promise' = promise]_vars

\* a second resolve/reject call was made on a settled promise
C1_Witness == settles >= 2 /\ promise.state # "pending" /\ net = "ended"

\* C2 (as claimed): once the transport has ended, a generator that suspended
\* at its priming next() and let no exception out of a next() has received
\* that priming next(), then chunk resumes, then exactly one of next()
\* without value and throw(), and last return().
C2_Original ==
  (net = "ended" /\ gen # "none" /\ ~calls[1].done
     /\ \A i \in DOMAIN calls : calls[i].op = "next" => ~calls[i].thrown) =>
    /\ Len(calls) >= 3
    /\ IsReturn(Len(calls))
    /\ IsEnd(Len(calls) - 1) \/ IsThrow(Len(calls) - 1)
    /\ \A i \in 2..(Len(calls) - 2) : IsChunk(i)

\* C3: on a plain response every 'data' event resumes the generator with its
\* chunk, in the order of the events (the i-th chunk call carries chunk i,
\* none is missing), the generator's code sees a prefix of them, and no chunk
\* call follows the end-of-stream next(), the throw() or the return().
C3_OrderPreserved ==
  Plain =>
    /\ Cardinality({i \in DOMAIN calls : IsChunk(i)}) = ndata
    /\ \A i \in DOMAIN calls : IsChunk(i) => calls[i].arg = i - 1
    /\ \A i, j \in DOMAIN calls :
         (i < j /\ IsChunk(j)) => (IsPrime(i) \/ IsChunk(i))
    /\ \A i, j \in DOMAIN calls :
         (i < j /\ IsChunk(i) /\ IsChunk(j) /\ calls[j].ran) => calls[i].ran

\* all chunks were delivered to a running generator, then the end or the
\* abort signal
C3_Witness ==
  /\ Plain /\ net = "ended" /\ ndata = MaxData
  /\ \A i \in 2..(MaxData + 1) : IsChunk(i) /\ calls[i].ran
  /\ (IsEnd(MaxData + 2) \/ IsThrow(MaxData + 2)) /\ calls[MaxData + 2].ran

C6_Original ==
  (~async /\ Plain /\ net = "ended"
     /\ \E i \in DOMAIN calls :
          IsThrow(i) /\ calls[i].ran /\ calls[i].done /\ ~calls[i].thrown
          /\ calls[i].value = "v")
    => promise = [state |-> "resolved", value |-> "v"]

\* C7 (as claimed): when the suspended generator lets the abort fault out, in
\* awaited mode the promise is rejected with that fault, in eager mode the
\* promise stays as resolved and nothing gets out of the 'end' handler.
C7_Original ==
  \A i \in DOMAIN calls :
    (Plain /\ IsThrow(i) /\ calls[i].ran /\ calls[i].thrown) =>
      IF async
      THEN promise = [state |-> "resolved", value |-> "undefined"] /\ "end" \notin escaped
      ELSE promise = [state |-> "rejected", value |-> calls[i].value]

\* C7 (amended): the same, except that in awaited mode a promise the
\* request's 'error' handler has already rejected keeps that rejection:
\* it is rejected with the generator's fault when no request error came
\* first, and with the socket error otherwise.
C7_UncaughtAbort ==
  \A i \in DOMAIN calls :
    (Plain /\ IsThrow(i) /\ calls[i].ran /\ calls[i].thrown) =>
      IF async
      THEN promise = [state |-> "resolved", value |-> "undefined"] /\ "end" \notin escaped
      ELSE /\ promise.state = "rejected"
           /\ promise.value = IF hadError THEN "socket" ELSE calls[i].value

\* awaited mode, the generator let its own exception out of throw(), and
\* that exception rejected the promise
C7_Witness ==
  /\ ~async /\ Plain /\ net = "ended" /\ ~hadError
  /\ \E i \in DOMAIN calls : IsThrow(i) /\ calls[i].ran /\ calls[i].thrown
                             /\ calls[i].value = "boom"
  /\ promise = [state |-> "rejected", value |-> "boom"]

\* C8 (as claimed): in awaited mode, after a graceful end (no abort of either
\* side) at which the suspended generator was resumed without value and
\* returned "v", the promise is resolved with "v".
C8_Original ==
  (~async /\ net = "ended" /\ ~serverAbort /\ ~clientAbort /\ ~hadError
     /\ \E i \in DOMAIN calls :
          IsEnd(i) /\ calls[i].ran /\ calls[i].done /\ ~calls[i].thrown
          /\ calls[i].value = "v")
    => promise = [state |-> "resolved", value |-> "v"]

\* the status gate tripped: a 'response' with status >= 400 or an 'upgrade'
\* with a status other than 101
Gated ==
  \/ event = "response" /\ status >= 400
  \/ event = "upgrade" /\ status # 101

\* C9: when the status gate trips, generator() is never called (there is no
\* generator and no call on one, no 'data' event is handled), the response is
\* destroyed with the error that carries it, and the promise is never resolved.
C9_StatusGate ==
  Gated => /\ gen = "none" /\ calls = <<>> /\ ndata = 0
           /\ destroyed /\ destroyErr = "status"
           /\ promise.state # "resolved"

\* a 404 was gated and its error rejected the promise
C9_Witness ==
  /\ Gated /\ status = 404 /\ net = "closed"
  /\ promise = [state |-> "rejected", value |-> "status"]

\* C10 (as claimed): in awaited mode, once the client has cancelled and the
\* transport has reported its termination, the promise is settled.
C10_Original ==
  (~async /\ clientAbort /\ Terminated) => promise.state # "pending"

\* C11 (as claimed): once a transport that passed the status gate has ended,
\* on a plain or an upgraded connection, the caller's generator, if it let no
\* exception out of a next(), has received a return() call.
C11_Original ==
  (net = "ended" /\ event \in {"response", "upgrade"} /\ gen # "none"
     /\ \A i \in DOMAIN calls : calls[i].op = "next" => ~calls[i].thrown) =>
    \E i \in DOMAIN calls : IsReturn(i)

\* C12: once the transport has completed, no step (a call of the cancellation
\* handle and the 'abort' event it queues included) resumes the generator,
\* lets an exception out or changes the promise, and a call of the handle
\* after the first one changes nothing but the count of calls.
C12_CancelAfterCompletion ==
  [][Terminated =>
       /\ UNCHANGED <<promise, settles, body, gen, calls, escaped>>
       /\ (aborted /\ cancels' # cancels) =>
            UNCHANGED <<variant, async, conn, aborted, abortEvt, clientAbort, serverAbort,
                        ndata, decoder>>]_vars

\* a response ended gracefully with the handle never called, and the handle
\* was called twice afterwards
C12_Witness ==
  /\ Plain /\ async /\ net = "ended" /\ ~serverAbort
  /\ \E i \in DOMAIN calls : IsEnd(i)
  /\ clientAbort /\ cancels >= 2

\* C19 (as claimed): for a frame that is not a close frame, decodeFrame
\* returns the declared length its header encodes (the 7-bit code below 126,
\* the 16-bit value for code 126, the 64-bit value for code 127) and the
\* payload bytes that follow the extended length and the key, unmasked.
C19_Original ==
  (frameOut.err # "pending" /\ frameIn.opcode # 8) =>
    /\ frameOut.err = "none"
    /\ frameOut.length = frameIn.length
    /\ frameOut.payload = frameIn.payload

\* the payloads handed to the caller's generator, in order
Delivered ==
  LET cs == SelectSeq(calls, LAMBDA c : c.op = "next" /\ c.arg > 0)
  IN  [i \in 1..Len(cs) |-> cs[i].data]

\* C17 (as claimed): once every byte of a stream of unmasked single-frame
\* messages has arrived, however split into blocks, a generator that kept
\* yielding has received exactly the frames' payloads, one per frame, in order.
C17_Original ==
  (upgrade /\ wire = <<>> /\ gen = "suspended" /\ \A i \in DOMAIN sent : sent[i].key = <<>>) =>
    Delivered = [i \in DOMAIN sent |-> sent[i].payload]

\* C18 (as claimed): once every byte of one masked frame has arrived, and the
\* generator has received one payload of the declared length whose first byte
\* is unmasked, every byte of that payload is the wire byte XORed with its
\* key byte, i.e. the payload is the one the server masked.
C18_Original ==
  (upgrade /\ wire = <<>> /\ Len(sent) = 1 /\ sent[1].key # <<>>
     /\ Len(Delivered) = 1 /\ Len(Delivered[1]) = Len(sent[1].payload)
     /\ Delivered[1][1] = sent[1].payload[1]) =>
    Delivered[1] = sent[1].payload

\* C20: the promise of a buffered request is resolved only when a response
\* with a status below 400 has ended, with that response and, as its body,
\* the concatenation of the chunks received in their order; once a status of
\* 400 or more was seen or the transport failed, the promise is not resolved,
\* and it is rejected (with the error that carries the response, for the
\* status) as soon as the request's 'error' event has been handled.
C20_Buffered ==
  /\ promise.state = "resolved" =>
       /\ net = "ended" /\ status > 0 /\ status < 400 /\ ~hadError
       /\ promise.value = [status |-> status, body |-> Concat(received)]
  /\ (status >= 400 \/ hadError \/ net = "closed") => promise.state # "resolved"
  /\ (status >= 400 /\ net = "closed") =>
       promise = [state |-> "rejected",
                  value |-> [error |-> "status", response |-> [status |-> status]]]
  /\ (hadError \/ (status = 0 /\ net = "closed")) =>
       promise = [state |-> "rejected", value |-> [error |-> "socket"]]

\* a response of status 200 ended after two different chunks and resolved
\* the promise
C20_Witness ==
  /\ net = "ended" /\ status = 200 /\ promise.state = "resolved"
  /\ Len(received) >= 2 /\ received[1] # received[2]
  /\ gen = "none"

\* the handle of streaming request id, and the group its kind belongs to
Handle(id) == [kind |-> "request", id |-> id]
GroupOf(kind) == IF kind = "logs" THEN "dashboard.logs" ELSE "dashboard"
Reconnects == {id \in DOMAIN streams : streams[id].parent # 0}

\* C13 (as claimed): when the response of a subscription (pod watch or log
\* tail) that the client did not cancel ends, gracefully or because the
\* server closed the connection, its 'end' handler issues a new request
\* (the pod list of dashboard(), or the log request with the cursor).
C13_Original ==
  [][\A id \in DOMAIN streams :
       (streams[id].net = "streaming" /\ streams'[id].net = "ended"
          /\ ~streams[id].clientAbort) =>
         (Len(streams') > Len(streams) \/ nlists' > nlists)]_vars

\* C14: every request issued by a reconnect (the log request of logger's
\* catch block, the pod watch of the dashboard() that updatePodTable calls)
\* has its handle in the group of the request it replaces until that group
\* is run, and is aborted once the group has been run, also when the request
\* it replaces was itself a reconnect.
C14_ReconnectRegistered ==
  \A id \in Reconnects :
    /\ streams[id].kind = streams[streams[id].parent].kind
    /\ ~streams[id].clientAbort <=>
         Handle(id) \in Handles(cancellations, GroupOf(streams[id].kind))

\* a log request issued by a reconnect was streaming when a later run of
\* 'dashboard.logs' aborted it
C14_Witness ==
  \E id \in Reconnects :
    /\ streams[id].kind = "logs" /\ streams[id].net = "streaming"
    /\ streams[id].clientAbort
    /\ Handle(id) \notin Handles(cancellations, "dashboard.logs")

\* C15 (as claimed): every log request issued by a reconnect carries as its
\* sinceTime parameter the timestamp logger parsed from the last chunk of the
\* request it replaces, and that request had delivered a chunk.
C15_Original ==
  \A id \in Reconnects :
    streams[id].kind = "logs" =>
      /\ streams[streams[id].parent].ndata > 0
      /\ streams[id].cursor = streams[streams[id].parent].timestamp

\* the seconds of a timestamp: what precedes its '.'
Second(t) == Substring(t, 0, IndexOf(t, "."))
Shown(msg) == \E i \in DOMAIN logLines : logLines[i] = msg

\* C16: when a log request issued by a reconnect with a cursor delivers a
\* line, the line is not added to the log widget if its timestamp is in the
\* second of the cursor and its message is in the widget already, and it is
\* added if its timestamp is in another second.
C16_NoDuplicateLine ==
  [][\A id \in DOMAIN streams :
       (id \in Reconnects /\ streams[id].kind = "logs" /\ streams[id].cursor # NoParam
          /\ streams'[id].ndata = streams[id].ndata + 1) =>
         LET line == streams'[id].log
             time == SubSeq(line, 1, IndexOf(line, " "))
             msg  == SubSeq(line, IndexOf(line, " ") + 2, Len(line))
         IN  /\ (Second(time) = Second(streams[id].cursor) /\ Shown(msg)) =>
                  logLines' = logLines
             /\ Second(time) # Second(streams[id].cursor) =>
                  logLines' = Append(logLines, msg)]_vars

\* after a reconnect with the cursor 1.0 the line "1.0 a" came again and was
\* not added: the widget shows "a" once
C16_Witness ==
  \E id \in Reconnects :
    /\ streams[id].kind = "logs" /\ streams[id].cursor = <<"1", ".", "0">>
    /\ streams[id].log = <<"1", ".", "0", " ", "a">>
    /\ logLines = << <<"a">> >>

\* the decoder left its loop on a close frame: decode's frame holds the
\* object {opcode} and nothing else
Closed == upgrade /\ dec = "done" /\ frame = 0

\* C21: on an upgraded connection, a 'data' block that the decoder takes at a
\* frame boundary and that decodes to opcode 8 leaves decode's payload and
\* offset alone and resumes the waiting consumer once, without value; when the
\* consumer lets no exception out, the decoder is done with the consumer's
\* value, the socket is ended, response.body is that value and the promise is
\* resolved with the response (in awaited mode by this very step). From then
\* on the consumer has one end-of-stream resume and no step, a later 'data'
\* block and the socket's 'end' included, calls it again.
C21_CloseFrame ==
  [][ /\ ( /\ upgrade /\ dec = "suspended" /\ frame = -1 /\ gen = "suspended"
           /\ \E d \in SocketBlocks : decodeFrame(d).opcode = 8 /\ SocketData(d) )
         => LET c == calls'[Len(calls')] IN
            /\ Len(calls') = Len(calls) + 1
            /\ c.op = "next" /\ c.arg = 0 /\ c.data = <<>> /\ c.ran
            /\ payload' = payload /\ offset' = offset
            /\ dec' = "done"
            /\ ~c.thrown =>
                 /\ destroyed'
                 /\ body' = c.value
                 /\ promise'.state = "resolved"
                 /\ ~async => promise' = [state |-> "resolved", value |-> c.value]
      /\ Closed =>
           /\ Cardinality({i \in DOMAIN calls : IsEnd(i)}) = 1
           /\ UNCHANGED <<gen, calls>>
    ]_vars

\* awaited mode: the first block was a close frame, the consumer returned "v"
\* at the end-of-stream resume, two more blocks and the socket's 'end' came
C21_Witness ==
  /\ Closed /\ ~async /\ net = "ended" /\ ndata = MaxData
  /\ Len(calls) = 2 /\ IsEnd(2) /\ calls[2].ran /\ calls[2].value = "v"
  /\ destroyed /\ promise = [state |-> "resolved", value |-> "v"]

\* a transport that can still deliver to its consumer: the request is out or
\* its response is streaming, and nobody has aborted it
Live(st) == st.net \in {"sent", "streaming"} /\ ~st.clientAbort

\* C22 (as claimed): no streaming request issued for a namespace other than
\* the current one, pod watch or log tail, is live.
C22_Original ==
  \A id \in DOMAIN streams : streams[id].ns # namespace => ~Live(streams[id])

\* C23: when the response of an eager streaming request that the client has
\* cancelled (a run of its group invoked its handle while it was streaming)
\* ends, the 'end' handler raises neither the end-of-stream resume nor the
\* abort fault in the consumer and only disposes of it, and the step issues no
\* request and leaves sinceTime, the registry and the timers alone: logger's
\* catch block and the code after updatePodTable's loop do not run. Every
\* request a consumer has issued comes from a consumer that got a signal: a
\* log request from a logger that got the fault, a pod list from an
\* updatePodTable that got the end-of-stream resume.
C23_CancelledNoReconnect ==
  [][ /\ \A id \in DOMAIN streams :
           ( /\ streams[id].clientAbort /\ streams[id].net = "streaming"
             /\ streams'[id].net = "ended" )
           => /\ streams'[id].signal = "none"
              /\ streams'[id].gen = "done"
              /\ Len(streams') = Len(streams) /\ nlists' = nlists
              /\ UNCHANGED <<sinceTime, cancellations, timers>>
      /\ \A id \in DOMAIN streams' :
           (streams'[id].kind = "logs" /\ streams'[id].parent # 0)
             => streams'[streams'[id].parent].signal = "throw"
      /\ \A i \in DOMAIN lists' :
           lists'[i].after # 0 => streams'[lists'[i].after].signal = "next"
    ]_vars

\* a log request that had shown a line with a timestamp was cancelled by a
\* run of its group while it was streaming, its response has ended, and no
\* request continues it
C23_Witness ==
  \E id \in DOMAIN streams :
    /\ streams[id].kind = "logs" /\ streams[id].net = "ended" /\ streams[id].clientAbort
    /\ streams[id].signal = "none" /\ streams[id].gen = "done"
    /\ streams[id].ndata > 0 /\ streams[id].timestamp = <<"1", ".", "0">>
    /\ ~\E c \in DOMAIN streams : streams[c].parent = id

\* the live transports of one kind
LiveOf(kind) == {id \in DOMAIN streams : streams[id].kind = kind /\ Live(streams[id])}

\* C24 (as claimed): at most one pod-watch transport and at most one log-tail
\* transport is live.
C24_Original ==
  /\ Cardinality(LiveOf("watch")) <= 1
  /\ Cardinality(LiveOf("logs")) <= 1

====
